---- MODULE Spec2Model ----
(***************************************************************************)
(* A model of djherbis/stream: one producer appends bytes to a File, any   *)
(* number of Readers read them concurrently, and a broadcaster (sync.go)   *)
(* coordinates progress, wake-ups, the reader set and the handle counter.  *)
(*                                                                         *)
(* Threads: "W" the producer (Stream.Write / Stream.Close), "X" a thread   *)
(* calling Stream.Cancel, "M" a thread calling Stream.Remove or            *)
(* Stream.ShutdownWithErr, "K" a thread calling Reader.Close on a Reader   *)
(* it does not read from, and one client thread per Reader slot, which     *)
(* calls Stream.NextReader and then Read / ReadAt / Close on its Reader.   *)
(*                                                                         *)
(* Every section of code that runs under broadcaster.mu.Lock is one step;  *)
(* a section under RLock is one step, except broadcaster.Wait, whose       *)
(* predicate check, cond.Wait registration, unlock, park and re-lock are   *)
(* separate steps (muR is the set of threads holding the shared lock).     *)
(* The file is the in-memory file of memfs.go.  The k-th byte the producer *)
(* writes has the value k, so any loss, repetition or reordering shows.    *)
(***************************************************************************)
EXTENDS Integers, Sequences, FiniteSets, TLC

\* ---------------------------------------------------------------- bounds
NumReaders == 2
MaxBytes == 2
MaxBuf == 2
MaxCancels == 1
MaxShutdowns == 1
MaxExtCloses == 1
MaxNilShutdowns == 1
MaxSeek == 1

Readers == 1..NumReaders
BufLens == 0..MaxBuf
Offsets == 0..MaxBytes

\* ------------------------------------------------------- program constants
openState == 0
closedState == 1
canceledState == 2

ErrNil == "nil"
EOF == "EOF"
ErrCanceled == "ErrCanceled"
ErrRemoving == "ErrRemoving"
ErrClosed == "ErrClosed"
ErrShutdown == "ErrShutdown"
errWhence == "Seek: invalid whence"

errOffset == "Seek: invalid offset"

ErrOpen == "ErrOpen"

VARIABLES
    state,          \* broadcaster.state
    size,           \* broadcaster.size
    newHandleErr,   \* broadcaster.newHandleErr
    rs,             \* broadcaster.rs, the live-reader set
    fileInUse,      \* broadcaster.fileInUse, the WaitGroup counter
    waiters,        \* broadcaster.cond's notify list: Readers registered and not yet notified
    muR,            \* Readers holding broadcaster.mu.RLock inside Wait
    fileData,       \* memFile.buf: the bytes stored in the file
    writerClosed,   \* memFile.writerClosed
    readerClosed,   \* memReader.readerClosed, per Reader
    fsRemoved,      \* the FileSystem was asked to Remove the file
    sMu,            \* holder of Stream.mu ("none", "W" or "X")
    sOnce,          \* Stream.closeOnce has run
    closePc,        \* per Reader: position inside the body of Reader.closeOnce
    isCanceled,     \* per Reader: DropReader's local isCanceled
    pc,             \* position of the threads "W", "X", "M", "K"
    wN,             \* Stream.Write's n, between file.Write and Wrote
    wRes,           \* result of the last Stream.Write: <<n, err>>
    xToClose,       \* broadcaster.Cancel's readersToClose still to be closed
    tCur,           \* the Reader thread "X" / "K" is closing
    mErr,           \* the argument of the latest ShutdownWithErr with a non-nil err
    nilShutdowns,   \* number of ShutdownWithErr(nil) calls that have returned
    cancels,        \* number of Stream.Cancel calls that have returned
    shutdowns,      \* number of WaitForZeroHandles calls that have returned
    extCloses,      \* number of Reader.Close calls thread "K" has made
    rpc,            \* per Reader slot: position of its client thread
    rOp,            \* per Reader: the call in progress ("Read" / "ReadAt" / "none")
    rLen,           \* per Reader: len(p) of the call in progress
    rOff,           \* per Reader: ReadAt's off
    readOff,        \* Reader.readOff
    rN,             \* per Reader: n of the call in progress
    lastN,          \* per Reader: n returned by the last finished Read / ReadAt
    lastErr,        \* per Reader: err returned by the last finished call (NextReader included)
    got,            \* per Reader: all bytes returned so far by Read
    sought,         \* per Reader: a Seek has set the read offset (got is no longer extended)
    startCanceled,  \* per Reader: the call in progress began when the state was canceledState
    ready           \* per Reader: broadcaster.Wait has returned nil to the call in progress

bvars == <<state, size, newHandleErr, rs, fileInUse, waiters, muR>>
fvars == <<fileData, writerClosed, readerClosed, fsRemoved>>
svars == <<sMu, sOnce>>
cvars == <<closePc, isCanceled>>
tvars == <<pc, wN, wRes, xToClose, tCur, mErr, nilShutdowns, cancels, shutdowns, extCloses>>
rvars == <<rpc, rOp, rLen, rOff, readOff, rN, lastN, lastErr, got, sought, startCanceled, ready>>
vars == <<bvars, fvars, svars, cvars, tvars, rvars>>

Min(a, b) == IF a < b THEN a ELSE b

\* ------------------------------------------------------------ pure helpers

\* a setState that assigns in every state
setState_overwrite(cur, s) == s

\* broadcaster.setState: the new state (no transition leaves canceledState)
setState(cur, s) == IF cur = canceledState THEN cur ELSE s

\* a setState that assigns without cond.Broadcast
setStateBroadcasts_never(cur) == FALSE

\* broadcaster.setState broadcasts exactly when it assigns
setStateBroadcasts(cur) == cur # canceledState

\* a latch that takes every error it is given
preventNewHandles_overwrite(cur, err) == err

\* a latch that never captures an error
preventNewHandles_none(cur, err) == cur

\* broadcaster.preventNewHandles: the new value of newHandleErr
preventNewHandles(cur, err) == IF cur = ErrNil THEN err ELSE cur

\* sync.Cond.Signal in place of Broadcast: one registered waiter is notified
Broadcast_signal(ws) == IF ws = {} THEN {} ELSE ws \ {CHOOSE w \in ws : TRUE}

\* sync.Cond.Broadcast: the notify list afterwards (every registered waiter is notified)
Broadcast(ws) == {}

\* a Write that does not look at writerClosed
memWrite_ignoreClosed(closed, data, plen) ==
    <<plen, ErrNil, data \o [i \in 1..plen |-> Len(data) + i]>>

\* a Write that reports bytes it has not stored
memWrite_lost(closed, data, plen) ==
    IF closed THEN <<0, ErrClosed, data>>
    ELSE <<plen, ErrNil, data>>

\* memFile.Write: <<n, err, new data>>; the bytes appended are the next values of B
memWrite(closed, data, plen) ==
    IF closed THEN <<0, ErrClosed, data>>
    ELSE <<plen, ErrNil, data \o [i \in 1..plen |-> Len(data) + i]>>

\* a ReadAt that does not look at readerClosed
memReadAt_ignoreClosed(closed, data, plen, off) ==
    IF off >= Len(data) THEN <<0, EOF, <<>>>>
    ELSE LET m == Min(plen, Len(data) - off)
         IN  <<m, IF m < plen THEN EOF ELSE ErrNil, SubSeq(data, off + 1, off + m)>>

\* memReader.ReadAt: <<n, err, bytes read>> for a buffer of length plen at offset off
memReadAt(closed, data, plen, off) ==
    IF closed THEN <<0, ErrClosed, <<>>>>
    ELSE IF Len(data) < off THEN <<0, EOF, <<>>>>
    ELSE IF off >= Len(data) THEN <<0, EOF, <<>>>>
    ELSE LET m == Min(plen, Len(data) - off)
         IN  <<m, IF m < plen THEN EOF ELSE ErrNil, SubSeq(data, off + 1, off + m)>>

\* the loop condition of broadcaster.Wait
WaitBlocks(st, sz, live, r, off) == st = openState /\ off >= sz /\ r \in live

\* a classification that tests the reader set before the end of a closed stream
WaitResult_closedFirst(st, sz, live, r, off) ==
    IF st = canceledState THEN ErrCanceled
    ELSE IF r \notin live THEN ErrClosed
    ELSE IF st = closedState /\ off >= sz THEN EOF
    ELSE ErrNil

\* a classification reporting EOF as soon as the stream is closed, whatever the offset
WaitResult_eofOnClose(st, sz, live, r, off) ==
    IF st = canceledState THEN ErrCanceled
    ELSE IF st = closedState THEN EOF
    ELSE IF r \notin live THEN ErrClosed
    ELSE ErrNil

\* a classification reporting EOF at the end of the data, whatever the state
WaitResult_eofWhenOpen(st, sz, live, r, off) ==
    IF st = canceledState THEN ErrCanceled
    ELSE IF off >= sz THEN EOF
    ELSE IF r \notin live THEN ErrClosed
    ELSE ErrNil

\* a classification without the canceledState case
WaitResult_noCancel(st, sz, live, r, off) ==
    IF st = closedState /\ off >= sz THEN EOF
    ELSE IF r \notin live THEN ErrClosed
    ELSE ErrNil

\* the classification broadcaster.Wait makes once its loop has ended
WaitResult(st, sz, live, r, off) ==
    IF st = canceledState THEN ErrCanceled
    ELSE IF st = closedState /\ off >= sz THEN EOF
    ELSE IF r \notin live THEN ErrClosed
    ELSE ErrNil

\* a read loop that leaves the offset where it was
advance_stuck(off, m) == off

\* Reader.read: *off += int64(m)
advance(off, m) == off + m

\* a UseHandle that calls do() in every state
UseHandleErr_never(st) == ErrNil

\* broadcaster.UseHandle: the error it returns without calling do()
UseHandleErr(st) == IF st = canceledState THEN ErrCanceled ELSE ErrNil

\* a Size that reports any state but openState as final
Size_notOpen == <<size, state # openState>>

\* broadcaster.Size / Reader.Size, under mu.RLock: <<size, isClosed>>
Size == <<size, state = closedState>>

\* a switch that returns only once the file read reports no EOF: a short read
\* waits for the rest of the buffer
readSwitch_fill(n, err) ==
    IF err = EOF THEN "wait"
    ELSE IF n # 0 /\ err = ErrNil THEN "return"
    ELSE IF err # ErrNil THEN "fail"
    ELSE "retry"

\* Reader.read: the switch after n += m, its cases tried in order
readSwitch(n, err) ==
    IF n # 0 /\ (err = ErrNil \/ err = EOF) THEN "return"
    ELSE IF err = EOF THEN "wait"
    ELSE IF err # ErrNil THEN "fail"
    ELSE "retry"

\* the whence values of io.Seeker, and one that is none of them
SeekStart == 0

SeekCurrent == 1

SeekEnd == 2

Whences == {SeekStart, SeekCurrent, SeekEnd, 100}

\* the relative offsets handed to Seek
SeekOffsets == -MaxSeek .. MaxSeek

\* const maxInt64: the largest offset, above every size the stream reaches and
\* every sum of a size and a relative offset
maxInt64 == MaxBytes + MaxSeek + 1

\* int64 arithmetic: a sum beyond maxInt64 wraps around to the negative numbers
int64(x) == ((x + maxInt64 + 1) % (2 * (maxInt64 + 1))) - (maxInt64 + 1)

\* a Seek that stores an offset although it returns an error
seekOffset_always(off, cur) == IF off < 0 THEN 0 ELSE off

\* Reader.Seek: the value of r.readOff once the call has returned, off being the
\* absolute offset asked for and cur the offset saved before
seekOffset(off, cur) == IF off < 0 THEN cur ELSE off

\* a Seek that waits at the offset it was given instead of maxInt64
CurOff_noMax(r) == IF rOp[r] = "Read" THEN readOff[r] ELSE rOff[r]

\* the offset the call in progress reads or waits at: &r.readOff for Read, &off
\* for ReadAt, maxInt64 for Seek
CurOff(r) ==
    IF rOp[r] = "Read" THEN readOff[r]
    ELSE IF rOp[r] = "Seek" THEN maxInt64
    ELSE rOff[r]

Init ==
    /\ state = openState
    /\ size = 0
    /\ newHandleErr = ErrNil
    /\ rs = {}
    /\ fileInUse = 1
    /\ waiters = {}
    /\ muR = {}
    /\ fileData = <<>>
    /\ writerClosed = FALSE
    /\ readerClosed = [r \in Readers |-> FALSE]
    /\ fsRemoved = FALSE
    /\ sMu = "none"
    /\ sOnce = FALSE
    /\ closePc = [r \in Readers |-> "no"]
    /\ isCanceled = [r \in Readers |-> FALSE]
    /\ pc = [t \in {"W", "X", "M", "K"} |-> "idle"]
    /\ wN = 0
    /\ wRes = <<0, ErrNil>>
    /\ xToClose = {}
    /\ tCur = [t \in {"X", "K"} |-> 0]
    /\ mErr = ErrNil
    /\ nilShutdowns = 0
    /\ cancels = 0
    /\ shutdowns = 0
    /\ extCloses = 0
    /\ rpc = [r \in Readers |-> "init"]
    /\ rOp = [r \in Readers |-> "none"]
    /\ rLen = [r \in Readers |-> 0]
    /\ rOff = [r \in Readers |-> 0]
    /\ readOff = [r \in Readers |-> 0]
    /\ rN = [r \in Readers |-> 0]
    /\ lastN = [r \in Readers |-> 0]
    /\ lastErr = [r \in Readers |-> ErrNil]
    /\ got = [r \in Readers |-> <<>>]
    /\ sought = [r \in Readers |-> FALSE]
    /\ startCanceled = [r \in Readers |-> FALSE]
    /\ ready = [r \in Readers |-> FALSE]

\* ------------------------------------------------- Stream.Write (thread "W")

\* Stream.Write up to file.Write: takes Stream.mu and appends p to the file.
\* A write of n = 0 bytes (an empty p, or a closed file) makes Wrote a no-op and returns.
StreamWrite(plen) ==
    /\ pc["W"] = "idle"
    /\ sMu = "none"
    /\ Len(fileData) + plen <= MaxBytes
    /\ LET res == memWrite(writerClosed, fileData, plen)
       IN  /\ fileData' = res[3]
           /\ IF res[1] > 0
              THEN /\ sMu' = "W"
                   /\ wN' = res[1]
                   /\ pc' = [pc EXCEPT !["W"] = "wrote"]
                   /\ wRes' = wRes
              ELSE /\ wRes' = <<res[1], res[2]>>
                   /\ UNCHANGED <<sMu, wN, pc>>
    /\ UNCHANGED <<bvars, writerClosed, readerClosed, fsRemoved, sOnce, cvars,
                   xToClose, tCur, mErr, nilShutdowns, cancels, shutdowns, extCloses, rvars>>

\* a Wrote that broadcasts before it unlocks
WroteLocked_bcast ==
    /\ pc["W"] = "wrote"
    /\ muR = {}
    /\ size' = size + wN
    /\ waiters' = Broadcast(waiters)
    /\ pc' = [pc EXCEPT !["W"] = "bcast"]
    /\ UNCHANGED <<state, newHandleErr, rs, fileInUse, muR, fvars, svars, cvars,
                   wN, wRes, xToClose, tCur, mErr, nilShutdowns, cancels, shutdowns, extCloses,
                   rvars>>

\* a Wrote that assigns n to size
WroteLocked_reset ==
    /\ pc["W"] = "wrote"
    /\ muR = {}
    /\ size' = wN
    /\ pc' = [pc EXCEPT !["W"] = "bcast"]
    /\ UNCHANGED <<state, newHandleErr, rs, fileInUse, waiters, muR, fvars, svars, cvars,
                   wN, wRes, xToClose, tCur, mErr, nilShutdowns, cancels, shutdowns, extCloses,
                   rvars>>

\* broadcaster.Wrote, the section under mu.Lock: size += n
WroteLocked ==
    /\ pc["W"] = "wrote"
    /\ muR = {}
    /\ size' = size + wN
    /\ pc' = [pc EXCEPT !["W"] = "bcast"]
    /\ UNCHANGED <<state, newHandleErr, rs, fileInUse, waiters, muR, fvars, svars, cvars,
                   wN, wRes, xToClose, tCur, mErr, nilShutdowns, cancels, shutdowns, extCloses, rvars>>

\* broadcaster.Wrote, after mu.Unlock: cond.Broadcast; then Stream.Write returns
WroteBroadcast ==
    /\ pc["W"] = "bcast"
    /\ waiters' = Broadcast(waiters)
    /\ sMu' = "none"
    /\ wRes' = <<wN, ErrNil>>
    /\ wN' = 0
    /\ pc' = [pc EXCEPT !["W"] = "idle"]
    /\ UNCHANGED <<state, size, newHandleErr, rs, fileInUse, muR, fvars, sOnce, cvars,
                   xToClose, tCur, mErr, nilShutdowns, cancels, shutdowns, extCloses, rvars>>

\* ------------------------------------- Stream.Close (threads "W" and "X")

\* Stream.Close up to file.Close: takes Stream.mu; closeOnce runs its body once
StreamCloseBegin(t) ==
    /\ \/ t = "W" /\ pc[t] = "idle"
       \/ t = "X" /\ pc[t] = "x_drain" /\ xToClose = {}
    /\ sMu = "none"
    /\ IF sOnce
       THEN /\ pc' = [pc EXCEPT ![t] = "idle"]
            /\ cancels' = cancels + (IF t = "X" THEN 1 ELSE 0)
            /\ UNCHANGED <<sMu, writerClosed>>
       ELSE /\ sMu' = t
            /\ writerClosed' = TRUE
            /\ pc' = [pc EXCEPT ![t] = "sclose_b"]
            /\ cancels' = cancels
    /\ UNCHANGED <<bvars, fileData, readerClosed, fsRemoved, sOnce, cvars,
                   wN, wRes, xToClose, tCur, mErr, nilShutdowns, shutdowns, extCloses, rvars>>

\* broadcaster.Close, the section under mu.Lock: setState(closedState)
BroadcasterClose(t) ==
    /\ pc[t] = "sclose_b"
    /\ muR = {}
    /\ state' = setState(state, closedState)
    /\ waiters' = IF setStateBroadcasts(state) THEN Broadcast(waiters) ELSE waiters
    /\ pc' = [pc EXCEPT ![t] = "sclose_h"]
    /\ UNCHANGED <<size, newHandleErr, rs, fileInUse, muR, fvars, svars, cvars,
                   wN, wRes, xToClose, tCur, mErr, nilShutdowns, cancels, shutdowns, extCloses, rvars>>

\* a broadcaster.Close that keeps the writer's handle
StreamCloseEnd_keep(t) ==
    /\ pc[t] = "sclose_h"
    /\ sOnce' = TRUE
    /\ sMu' = "none"
    /\ pc' = [pc EXCEPT ![t] = "idle"]
    /\ cancels' = cancels + (IF t = "X" THEN 1 ELSE 0)
    /\ UNCHANGED <<bvars, fvars, cvars, wN, wRes, xToClose, tCur, mErr, nilShutdowns,
                   shutdowns, extCloses, rvars>>

\* broadcaster.Close's dropHandle; closeOnce is done and Stream.Close returns
StreamCloseEnd(t) ==
    /\ pc[t] = "sclose_h"
    /\ fileInUse' = fileInUse - 1
    /\ sOnce' = TRUE
    /\ sMu' = "none"
    /\ pc' = [pc EXCEPT ![t] = "idle"]
    /\ cancels' = cancels + (IF t = "X" THEN 1 ELSE 0)
    /\ UNCHANGED <<state, size, newHandleErr, rs, waiters, muR, fvars, cvars,
                   wN, wRes, xToClose, tCur, mErr, nilShutdowns, shutdowns, extCloses, rvars>>

\* ------------------------------------------------ Reader.Close (the body)

\* a Reader.Close without the closeOnce latch
CallReaderClose_again(r) == closePc' = [closePc EXCEPT ![r] = "file"]

\* a call of Reader.Close on r: closeOnce starts its body if no call has yet
CallReaderClose(r) == closePc' = [closePc EXCEPT ![r] = IF @ = "no" THEN "file" ELSE @]

\* a Reader.Close that closes the file without taking fileMu
ReaderCloseFile_nolock(r) ==
    /\ closePc[r] = "file"
    /\ readerClosed' = [readerClosed EXCEPT ![r] = TRUE]
    /\ closePc' = [closePc EXCEPT ![r] = "drop"]
    /\ UNCHANGED <<bvars, fileData, writerClosed, fsRemoved, svars, isCanceled, tvars, rvars>>

\* Reader.Close: fileMu.Lock (which waits for a read of this Reader that holds
\* fileMu.RLock); file.Close(); fileMu.Unlock
ReaderCloseFile(r) ==
    /\ closePc[r] = "file"
    /\ rpc[r] # "file"
    /\ readerClosed' = [readerClosed EXCEPT ![r] = TRUE]
    /\ closePc' = [closePc EXCEPT ![r] = "drop"]
    /\ UNCHANGED <<bvars, fileData, writerClosed, fsRemoved, svars, isCanceled, tvars, rvars>>

\* broadcaster.DropReader, the section under mu.Lock
DropReaderLocked(r) ==
    /\ closePc[r] = "drop"
    /\ muR = {}
    /\ rs' = rs \ {r}
    /\ isCanceled' = [isCanceled EXCEPT ![r] = (state = canceledState)]
    /\ closePc' = [closePc EXCEPT ![r] = "handle"]
    /\ UNCHANGED <<state, size, newHandleErr, fileInUse, waiters, muR, fvars, svars, tvars, rvars>>

\* a DropReader that keeps the handle
DropReaderHandle_keep(r) ==
    /\ closePc[r] = "handle"
    /\ closePc' = [closePc EXCEPT ![r] = IF isCanceled[r] THEN "done" ELSE "bcast"]
    /\ isCanceled' = [isCanceled EXCEPT ![r] = FALSE]
    /\ UNCHANGED <<bvars, fvars, svars, tvars, rvars>>

\* broadcaster.DropReader: dropHandle
DropReaderHandle(r) ==
    /\ closePc[r] = "handle"
    /\ fileInUse' = fileInUse - 1
    /\ closePc' = [closePc EXCEPT ![r] = IF isCanceled[r] THEN "done" ELSE "bcast"]
    /\ isCanceled' = [isCanceled EXCEPT ![r] = FALSE]
    /\ UNCHANGED <<state, size, newHandleErr, rs, waiters, muR, fvars, svars, tvars, rvars>>

\* a DropReader that never broadcasts
DropReaderBroadcast_none(r) ==
    /\ closePc[r] = "bcast"
    /\ closePc' = [closePc EXCEPT ![r] = "done"]
    /\ UNCHANGED <<bvars, fvars, svars, isCanceled, tvars, rvars>>

\* broadcaster.DropReader: cond.Broadcast when not canceled
DropReaderBroadcast(r) ==
    /\ closePc[r] = "bcast"
    /\ waiters' = Broadcast(waiters)
    /\ closePc' = [closePc EXCEPT ![r] = "done"]
    /\ UNCHANGED <<state, size, newHandleErr, rs, fileInUse, muR, fvars, svars, isCanceled,
                   tvars, rvars>>

\* ------------------------------------------------ Stream.Cancel (thread "X")

\* a Cancel that closes the files of the drained Readers inside its locked section
BroadcasterCancel_closesLocked ==
    /\ pc["X"] = "idle"
    /\ cancels < MaxCancels
    /\ muR = {}
    /\ state' = setState(state, canceledState)
    /\ waiters' = IF setStateBroadcasts(state) THEN Broadcast(waiters) ELSE waiters
    /\ newHandleErr' = preventNewHandles(newHandleErr, ErrCanceled)
    /\ xToClose' = rs
    /\ rs' = {}
    /\ readerClosed' = [r \in Readers |-> readerClosed[r] \/ r \in rs]
    /\ pc' = [pc EXCEPT !["X"] = "x_drain"]
    /\ UNCHANGED <<size, fileInUse, muR, fileData, writerClosed, fsRemoved, svars, cvars,
                   wN, wRes, tCur, mErr, nilShutdowns, cancels, shutdowns, extCloses, rvars>>

\* broadcaster.Cancel, the section under mu.Lock
BroadcasterCancel ==
    /\ pc["X"] = "idle"
    /\ cancels < MaxCancels
    /\ muR = {}
    /\ state' = setState(state, canceledState)
    /\ waiters' = IF setStateBroadcasts(state) THEN Broadcast(waiters) ELSE waiters
    /\ newHandleErr' = preventNewHandles(newHandleErr, ErrCanceled)
    /\ xToClose' = rs
    /\ rs' = {}
    /\ pc' = [pc EXCEPT !["X"] = "x_drain"]
    /\ UNCHANGED <<size, fileInUse, muR, fvars, svars, cvars,
                   wN, wRes, tCur, mErr, nilShutdowns, cancels, shutdowns, extCloses, rvars>>

\* broadcaster.Cancel: r.Close() for the next of readersToClose (map order: any)
CancelCloseReader(r) ==
    /\ pc["X"] = "x_drain"
    /\ r \in xToClose
    /\ xToClose' = xToClose \ {r}
    /\ tCur' = [tCur EXCEPT !["X"] = r]
    /\ CallReaderClose(r)
    /\ pc' = [pc EXCEPT !["X"] = "x_wait"]
    /\ UNCHANGED <<bvars, fvars, svars, isCanceled, wN, wRes, mErr, nilShutdowns, cancels, shutdowns, extCloses, rvars>>

\* a Cancel that also waits for the handle counter to reach zero
CancelCloseReturn_waitsZero ==
    /\ pc["X"] = "x_wait"
    /\ closePc[tCur["X"]] = "done"
    /\ fileInUse = 0
    /\ tCur' = [tCur EXCEPT !["X"] = 0]
    /\ pc' = [pc EXCEPT !["X"] = "x_drain"]
    /\ UNCHANGED <<bvars, fvars, svars, cvars, wN, wRes, xToClose, mErr, nilShutdowns, cancels,
                   shutdowns, extCloses, rvars>>

\* broadcaster.Cancel: that r.Close() returns, once closeOnce is done
CancelCloseReturn ==
    /\ pc["X"] = "x_wait"
    /\ closePc[tCur["X"]] = "done"
    /\ tCur' = [tCur EXCEPT !["X"] = 0]
    /\ pc' = [pc EXCEPT !["X"] = "x_drain"]
    /\ UNCHANGED <<bvars, fvars, svars, cvars, wN, wRes, xToClose, mErr, nilShutdowns, cancels,
                   shutdowns, extCloses, rvars>>

\* ------------------- Stream.ShutdownWithErr / Stream.Remove (thread "M")

\* a ShutdownWithErr that waits for zero handles also when err is nil
ShutdownWithErr_nilWaits(err) ==
    /\ pc["M"] = "idle"
    /\ IF err = ErrNil
       THEN /\ nilShutdowns < MaxNilShutdowns
            /\ nilShutdowns' = nilShutdowns + 1
            /\ pc' = [pc EXCEPT !["M"] = "m_wait"]
            /\ UNCHANGED <<newHandleErr, mErr>>
       ELSE /\ shutdowns < MaxShutdowns
            /\ muR = {}
            /\ newHandleErr' = preventNewHandles(newHandleErr, err)
            /\ mErr' = err
            /\ pc' = [pc EXCEPT !["M"] = "m_wait"]
            /\ nilShutdowns' = nilShutdowns
    /\ UNCHANGED <<state, size, rs, fileInUse, waiters, muR, fvars, svars, cvars,
                   wN, wRes, xToClose, tCur, cancels, shutdowns, extCloses, rvars>>

\* a ShutdownWithErr that also closes the lifecycle state
ShutdownWithErr_closes(err) ==
    /\ pc["M"] = "idle"
    /\ IF err = ErrNil
       THEN /\ nilShutdowns < MaxNilShutdowns
            /\ nilShutdowns' = nilShutdowns + 1
            /\ UNCHANGED <<state, newHandleErr, pc, mErr>>
       ELSE /\ shutdowns < MaxShutdowns
            /\ muR = {}
            /\ state' = setState(state, closedState)
            /\ newHandleErr' = preventNewHandles(newHandleErr, err)
            /\ mErr' = err
            /\ pc' = [pc EXCEPT !["M"] = "m_wait"]
            /\ nilShutdowns' = nilShutdowns
    /\ UNCHANGED <<size, rs, fileInUse, waiters, muR, fvars, svars, cvars,
                   wN, wRes, xToClose, tCur, cancels, shutdowns, extCloses, rvars>>

\* Stream.ShutdownWithErr(err): a nil err returns at once; otherwise
\* broadcaster.PreventNewHandles(err).  Stream.Remove is ShutdownWithErr(ErrRemoving)
\* followed by fs.Remove.
ShutdownWithErr(err) ==
    /\ pc["M"] = "idle"
    /\ IF err = ErrNil
       THEN /\ nilShutdowns < MaxNilShutdowns
            /\ nilShutdowns' = nilShutdowns + 1
            /\ UNCHANGED <<newHandleErr, pc, mErr>>
       ELSE /\ shutdowns < MaxShutdowns
            /\ muR = {}
            /\ newHandleErr' = preventNewHandles(newHandleErr, err)
            /\ mErr' = err
            /\ pc' = [pc EXCEPT !["M"] = "m_wait"]
            /\ nilShutdowns' = nilShutdowns
    /\ UNCHANGED <<state, size, rs, fileInUse, waiters, muR, fvars, svars, cvars,
                   wN, wRes, xToClose, tCur, cancels, shutdowns, extCloses, rvars>>

\* a WaitForZeroHandles that returns without waiting
WaitForZeroHandles_nowait ==
    /\ pc["M"] = "m_wait"
    /\ shutdowns' = shutdowns + 1
    /\ pc' = [pc EXCEPT !["M"] = IF mErr = ErrRemoving THEN "m_remove" ELSE "idle"]
    /\ UNCHANGED <<bvars, fvars, svars, cvars, wN, wRes, xToClose, tCur, mErr, nilShutdowns,
                   cancels, extCloses, rvars>>

\* broadcaster.WaitForZeroHandles: fileInUse.Wait() returns when the counter is 0
WaitForZeroHandles ==
    /\ pc["M"] = "m_wait"
    /\ fileInUse = 0
    /\ shutdowns' = shutdowns + 1
    /\ pc' = [pc EXCEPT !["M"] = IF mErr = ErrRemoving THEN "m_remove" ELSE "idle"]
    /\ UNCHANGED <<bvars, fvars, svars, cvars, wN, wRes, xToClose, tCur, mErr, nilShutdowns,
                   cancels, extCloses, rvars>>

\* Stream.Remove: s.fs.Remove(s.file.Name())
FsRemove ==
    /\ pc["M"] = "m_remove"
    /\ fsRemoved' = TRUE
    /\ pc' = [pc EXCEPT !["M"] = "idle"]
    /\ UNCHANGED <<bvars, fileData, writerClosed, readerClosed, svars, cvars,
                   wN, wRes, xToClose, tCur, mErr, nilShutdowns, cancels, shutdowns, extCloses, rvars>>

\* -------------------------------- Reader.Close from another thread ("K")

\* the Reader of slot r has been returned by NextReader
Created(r) == rpc[r] \notin {"init", "nr_create", "nr_add"}

KClose(r) ==
    /\ pc["K"] = "idle"
    /\ extCloses < MaxExtCloses
    /\ Created(r)
    /\ extCloses' = extCloses + 1
    /\ tCur' = [tCur EXCEPT !["K"] = r]
    /\ CallReaderClose(r)
    /\ pc' = [pc EXCEPT !["K"] = "k_wait"]
    /\ UNCHANGED <<bvars, fvars, svars, isCanceled, wN, wRes, xToClose, mErr, nilShutdowns, cancels,
                   shutdowns, rvars>>

KCloseReturn ==
    /\ pc["K"] = "k_wait"
    /\ closePc[tCur["K"]] = "done"
    /\ tCur' = [tCur EXCEPT !["K"] = 0]
    /\ pc' = [pc EXCEPT !["K"] = "idle"]
    /\ UNCHANGED <<bvars, fvars, svars, cvars, wN, wRes, xToClose, mErr, nilShutdowns, cancels,
                   shutdowns, extCloses, rvars>>

\* ------------------------------------ Stream.NextReader (Reader clients)

\* an addHandle that does not look at newHandleErr
addHandle_unchecked(r) ==
    /\ rpc[r] = "init"
    /\ fileInUse' = fileInUse + 1
    /\ rpc' = [rpc EXCEPT ![r] = "nr_create"]
    /\ UNCHANGED <<state, size, newHandleErr, rs, waiters, muR, fvars, svars, cvars, tvars,
                   rOp, rLen, rOff, readOff, rN, lastN, lastErr, got, sought, startCanceled, ready>>

\* broadcaster.addHandle, under mu.RLock: fail with newHandleErr, or fileInUse.Add(1)
addHandle(r) ==
    /\ rpc[r] = "init"
    /\ IF newHandleErr # ErrNil
       THEN /\ lastErr' = [lastErr EXCEPT ![r] = newHandleErr]
            /\ UNCHANGED <<fileInUse, rpc>>
       ELSE /\ fileInUse' = fileInUse + 1
            /\ rpc' = [rpc EXCEPT ![r] = "nr_create"]
            /\ lastErr' = lastErr
    /\ UNCHANGED <<state, size, newHandleErr, rs, waiters, muR, fvars, svars, cvars, tvars,
                   rOp, rLen, rOff, readOff, rN, lastN, got, sought, startCanceled, ready>>

\* a NewReader that keeps the handle when createReader() fails
createReader_leak(r, ok) ==
    /\ rpc[r] = "nr_create"
    /\ IF ok
       THEN /\ rpc' = [rpc EXCEPT ![r] = "nr_add"]
            /\ UNCHANGED <<fileInUse, lastErr>>
       ELSE /\ fileInUse' = fileInUse
            /\ lastErr' = [lastErr EXCEPT ![r] = ErrOpen]
            /\ rpc' = [rpc EXCEPT ![r] = "init"]
    /\ UNCHANGED <<state, size, newHandleErr, rs, waiters, muR, fvars, svars, cvars, tvars,
                   rOp, rLen, rOff, readOff, rN, lastN, got, sought, startCanceled, ready>>

\* broadcaster.NewReader: createReader() (fs.Open) succeeds, or fails and the handle is dropped
createReader(r, ok) ==
    /\ rpc[r] = "nr_create"
    /\ IF ok
       THEN /\ rpc' = [rpc EXCEPT ![r] = "nr_add"]
            /\ UNCHANGED <<fileInUse, lastErr>>
       ELSE /\ fileInUse' = fileInUse - 1
            /\ lastErr' = [lastErr EXCEPT ![r] = ErrOpen]
            /\ rpc' = [rpc EXCEPT ![r] = "init"]
    /\ UNCHANGED <<state, size, newHandleErr, rs, waiters, muR, fvars, svars, cvars, tvars,
                   rOp, rLen, rOff, readOff, rN, lastN, got, sought, startCanceled, ready>>

\* broadcaster.NewReader, the section under mu.Lock: rs.add(r); the Reader is returned
NewReaderAdd(r) ==
    /\ rpc[r] = "nr_add"
    /\ muR = {}
    /\ rs' = rs \cup {r}
    /\ lastErr' = [lastErr EXCEPT ![r] = ErrNil]
    /\ rpc' = [rpc EXCEPT ![r] = "idle"]
    /\ UNCHANGED <<state, size, newHandleErr, fileInUse, waiters, muR, fvars, svars, cvars,
                   tvars, rOp, rLen, rOff, readOff, rN, lastN, got, sought, startCanceled, ready>>

\* --------------------------------------------- Reader.Read / Reader.ReadAt

\* Reader.read returns (n, err) to the caller
Return(r, n, err) ==
    /\ lastN' = [lastN EXCEPT ![r] = n]
    /\ lastErr' = [lastErr EXCEPT ![r] = err]
    /\ rpc' = [rpc EXCEPT ![r] = "idle"]
    /\ rOp' = [rOp EXCEPT ![r] = "none"]
    /\ rLen' = [rLen EXCEPT ![r] = 0]
    /\ rOff' = [rOff EXCEPT ![r] = 0]
    /\ rN' = [rN EXCEPT ![r] = 0]
    /\ startCanceled' = [startCanceled EXCEPT ![r] = FALSE]
    /\ ready' = [ready EXCEPT ![r] = FALSE]

\* Reader.read returns n, r.checkErr(err): ErrCanceled closes the Reader first
ReturnCheckErr(r, n, err) ==
    IF err = ErrCanceled
    THEN /\ CallReaderClose(r)
         /\ rpc' = [rpc EXCEPT ![r] = "selfclose"]
         /\ rN' = [rN EXCEPT ![r] = n]
         /\ UNCHANGED <<lastN, lastErr, rOp, rLen, rOff, startCanceled, ready>>
    ELSE /\ Return(r, n, err)
         /\ closePc' = closePc

\* a call of Reader.Read(p) or Reader.ReadAt(p, off) with len(p) = plen begins
ReadCall(r, op, plen, off) ==
    /\ rpc[r] = "idle"
    /\ op = "Read" => off = 0
    /\ rOp' = [rOp EXCEPT ![r] = op]
    /\ rLen' = [rLen EXCEPT ![r] = plen]
    /\ rOff' = [rOff EXCEPT ![r] = off]
    /\ rN' = [rN EXCEPT ![r] = 0]
    /\ startCanceled' = [startCanceled EXCEPT ![r] = (state = canceledState)]
    /\ ready' = [ready EXCEPT ![r] = FALSE]
    /\ lastN' = [lastN EXCEPT ![r] = 0]
    /\ lastErr' = [lastErr EXCEPT ![r] = ErrNil]
    /\ rpc' = [rpc EXCEPT ![r] = "use"]
    /\ UNCHANGED <<bvars, fvars, svars, cvars, tvars, readOff, got, sought>>

\* broadcaster.UseHandle, the section under mu.RLock: ErrCanceled when canceled
UseHandle(r) ==
    /\ rpc[r] = "use"
    /\ IF UseHandleErr(state) # ErrNil
       THEN ReturnCheckErr(r, rN[r], UseHandleErr(state))
       ELSE /\ rpc' = [rpc EXCEPT ![r] = "rlock"]
            /\ UNCHANGED <<closePc, lastN, lastErr, rOp, rLen, rOff, rN, startCanceled, ready>>
    /\ UNCHANGED <<bvars, fvars, svars, isCanceled, tvars, readOff, got, sought>>

\* Reader.read, inside do(): r.fileMu.RLock(), held until the file's ReadAt has returned
FileRLock(r) ==
    /\ rpc[r] = "rlock"
    /\ rpc' = [rpc EXCEPT ![r] = "file"]
    /\ UNCHANGED <<bvars, fvars, svars, cvars, tvars, rOp, rLen, rOff, readOff, rN,
                   lastN, lastErr, got, sought, startCanceled, ready>>

\* Reader.read: r.file.ReadAt(p[n:], *off), fileMu.RUnlock, n += m, *off += m, and
\* the switch that returns, waits or retries
FileReadAt(r) ==
    /\ rpc[r] = "file"
    /\ LET res == memReadAt(readerClosed[r], fileData, rLen[r] - rN[r], CurOff(r))
           m   == res[1]
           err == res[2]
           n   == rN[r] + m
           Continue(to) ==
               /\ rpc' = [rpc EXCEPT ![r] = to]
               /\ rN' = [rN EXCEPT ![r] = n]
               /\ rOff' = [rOff EXCEPT ![r] = IF rOp[r] = "Read" THEN @ ELSE advance(@, m)]
               /\ UNCHANGED <<lastN, lastErr, rOp, rLen, startCanceled, ready>>
       IN  /\ IF rOp[r] = "Read"
              THEN /\ readOff' = [readOff EXCEPT ![r] = advance(@, m)]
                   /\ got' = [got EXCEPT ![r] = IF sought[r] THEN @ ELSE @ \o res[3]]
                   /\ sought' = sought
              ELSE UNCHANGED <<readOff, got, sought>>
           /\ CASE readSwitch(n, err) = "return" -> Return(r, n, ErrNil)
                []   readSwitch(n, err) = "wait" -> Continue("wait")
                []   readSwitch(n, err) = "fail" -> Return(r, n, err)
                []   OTHER -> Continue("use")
    /\ UNCHANGED <<bvars, fvars, svars, cvars, tvars>>

\* broadcaster.Wait: mu.RLock, the loop condition, and either cond.Wait's
\* registration on the notify list (the shared lock still held) or the
\* classification and the deferred RUnlock.  A parked Reader runs this again
\* once notified (cond.Wait re-locks and the loop re-tests).
WaitCheck(r) ==
    /\ \/ rpc[r] = "wait"
       \/ rpc[r] = "parked" /\ r \notin waiters
    /\ IF WaitBlocks(state, size, rs, r, CurOff(r))
       THEN /\ waiters' = waiters \cup {r}
            /\ muR' = muR \cup {r}
            /\ rpc' = [rpc EXCEPT ![r] = "wait_unlock"]
            /\ UNCHANGED <<closePc, lastN, lastErr, rOp, rLen, rOff, rN, startCanceled, ready>>
       ELSE LET err == WaitResult(state, size, rs, r, CurOff(r))
            IN  /\ UNCHANGED <<waiters, muR>>
                /\ IF rOp[r] = "Seek"
                   THEN IF err # ErrNil /\ err # EOF
                        THEN /\ Return(r, 0, err)
                             /\ closePc' = closePc
                        ELSE /\ rpc' = [rpc EXCEPT ![r] = "seek_size"]
                             /\ UNCHANGED <<closePc, lastN, lastErr, rOp, rLen, rOff, rN,
                                            startCanceled, ready>>
                   ELSE IF err = ErrNil
                        THEN /\ rpc' = [rpc EXCEPT ![r] = "use"]
                             /\ ready' = [ready EXCEPT ![r] = TRUE]
                             /\ UNCHANGED <<closePc, lastN, lastErr, rOp, rLen, rOff, rN,
                                            startCanceled>>
                        ELSE ReturnCheckErr(r, rN[r], err)
    /\ UNCHANGED <<state, size, newHandleErr, rs, fileInUse, fvars, svars, isCanceled, tvars,
                   readOff, got, sought>>

\* sync.Cond.Wait: c.L.Unlock() after the registration; the Reader parks
WaitUnlock(r) ==
    /\ rpc[r] = "wait_unlock"
    /\ muR' = muR \ {r}
    /\ rpc' = [rpc EXCEPT ![r] = "parked"]
    /\ UNCHANGED <<state, size, newHandleErr, rs, fileInUse, waiters, fvars, svars, cvars,
                   tvars, rOp, rLen, rOff, readOff, rN, lastN, lastErr, got, sought, startCanceled, ready>>

\* Reader.checkErr: r.Close() has returned; Reader.read returns ErrCanceled
SelfCloseReturn(r) ==
    /\ rpc[r] = "selfclose"
    /\ closePc[r] = "done"
    /\ Return(r, rN[r], ErrCanceled)
    /\ UNCHANGED <<bvars, fvars, svars, cvars, tvars, readOff, got, sought>>

\* ------------------------------------------------------------ Reader.Seek

\* Reader.Seek from the test of the offset on: errOffset and nothing stored when
\* it is negative, else r.readOff = offset and the offset is returned
seekTo(r, off) ==
    /\ readOff' = [readOff EXCEPT ![r] = seekOffset(off, @)]
    /\ sought' = [sought EXCEPT ![r] = @ \/ off >= 0]
    /\ IF off < 0 THEN Return(r, 0, errOffset) ELSE Return(r, off, ErrNil)

\* a call of Reader.Seek(offset, whence): an unknown whence returns errWhence,
\* SeekStart and SeekCurrent compute the offset and return, SeekEnd enters
\* broadcaster.Wait(r, maxInt64)
SeekCall(r, offset, whence) ==
    /\ rpc[r] = "idle"
    /\ IF whence = SeekEnd
       THEN /\ rOp' = [rOp EXCEPT ![r] = "Seek"]
            /\ rOff' = [rOff EXCEPT ![r] = offset]
            /\ rLen' = [rLen EXCEPT ![r] = 0]
            /\ rN' = [rN EXCEPT ![r] = 0]
            /\ startCanceled' = [startCanceled EXCEPT ![r] = (state = canceledState)]
            /\ ready' = [ready EXCEPT ![r] = FALSE]
            /\ lastN' = [lastN EXCEPT ![r] = 0]
            /\ lastErr' = [lastErr EXCEPT ![r] = ErrNil]
            /\ rpc' = [rpc EXCEPT ![r] = "wait"]
            /\ UNCHANGED <<readOff, sought>>
       ELSE IF whence = SeekStart THEN seekTo(r, offset)
       ELSE IF whence = SeekCurrent THEN seekTo(r, int64(offset + readOff[r]))
       ELSE /\ Return(r, 0, errWhence)
            /\ UNCHANGED <<readOff, sought>>
    /\ UNCHANGED <<bvars, fvars, svars, cvars, tvars, got>>

\* Reader.Seek with SeekEnd once Wait has returned nil or EOF: size, _ :=
\* b.Size() under mu.RLock, offset += size, and the test of the offset
SeekSize(r) ==
    /\ rpc[r] = "seek_size"
    /\ seekTo(r, int64(rOff[r] + Size[1]))
    /\ UNCHANGED <<bvars, fvars, svars, cvars, tvars, got>>

\* ------------------------------------------- Reader.Close (Reader clients)

ReaderClose(r) ==
    /\ rpc[r] = "idle"
    /\ CallReaderClose(r)
    /\ rpc' = [rpc EXCEPT ![r] = "closing"]
    /\ UNCHANGED <<bvars, fvars, svars, isCanceled, tvars, rOp, rLen, rOff, readOff, rN,
                   lastN, lastErr, got, sought, startCanceled, ready>>

ReaderCloseReturn(r) ==
    /\ rpc[r] = "closing"
    /\ closePc[r] = "done"
    /\ rpc' = [rpc EXCEPT ![r] = "idle"]
    /\ UNCHANGED <<bvars, fvars, svars, cvars, tvars, rOp, rLen, rOff, readOff, rN,
                   lastN, lastErr, got, sought, startCanceled, ready>>

\* ------------------------------------------------------------ specification

\* the producer: Stream.Write and Stream.Close
Producer ==
    \/ \E plen \in BufLens : StreamWrite(plen)
    \/ WroteLocked
    \/ WroteBroadcast
    \/ StreamCloseBegin("W")
    \/ BroadcasterClose("W")
    \/ StreamCloseEnd("W")

\* a thread calling Stream.Cancel
Canceller ==
    \/ BroadcasterCancel
    \/ \E r \in Readers : CancelCloseReader(r)
    \/ CancelCloseReturn
    \/ StreamCloseBegin("X")
    \/ BroadcasterClose("X")
    \/ StreamCloseEnd("X")

\* a thread calling Stream.ShutdownWithErr / Stream.Remove
Remover ==
    \/ \E err \in {ErrNil, ErrRemoving, ErrShutdown} : ShutdownWithErr(err)
    \/ WaitForZeroHandles
    \/ FsRemove

\* a thread calling Reader.Close on a Reader another thread reads from
Closer ==
    \/ \E r \in Readers : KClose(r)
    \/ KCloseReturn

\* the body of Reader.Close on r, run by whichever thread called it first
CloseBody(r) ==
    \/ ReaderCloseFile(r)
    \/ DropReaderLocked(r)
    \/ DropReaderHandle(r)
    \/ DropReaderBroadcast(r)

\* the steps the client thread of Reader slot r takes inside a call on a
\* stream nobody cancels (checkErr never sees ErrCanceled)
StreamingInternal(r) ==
    \/ \E ok \in BOOLEAN : createReader(r, ok)
    \/ NewReaderAdd(r)
    \/ UseHandle(r)
    \/ FileRLock(r)
    \/ FileReadAt(r)
    \/ WaitCheck(r)
    \/ WaitUnlock(r)
    \/ ReaderCloseReturn(r)

\* the steps the client thread of Reader slot r takes inside a call
ClientInternal(r) ==
    \/ StreamingInternal(r)
    \/ SelfCloseReturn(r)

\* the client thread of Reader slot r on a stream nobody cancels
StreamingSteps(r) ==
    \/ addHandle(r)
    \/ ReaderClose(r)
    \/ StreamingInternal(r)

\* the client thread of Reader slot r: NextReader, Close, and the steps inside its calls
ClientSteps(r) ==
    \/ addHandle(r)
    \/ ReaderClose(r)
    \/ ClientInternal(r)

\* Spec: every thread and one Reader slot in use; Read with every buffer length,
\* ReadAt with a one-byte buffer at every offset.  The specifications after it
\* are built from the same actions; each keeps the threads its properties are
\* about and leaves the others idle.
Solo == {1}

Next ==
    \/ Producer
    \/ Canceller
    \/ Remover
    \/ Closer
    \/ \E r \in Readers : CloseBody(r)
    \/ \E r \in Solo : ClientSteps(r)
    \/ \E r \in Solo, plen \in BufLens : ReadCall(r, "Read", plen, 0)
    \/ \E r \in Solo, off \in Offsets : ReadCall(r, "ReadAt", 1, off)

Spec == Init /\ [][Next]_vars

\* SpecMulti: the producer and every Reader slot, streaming Reads
NextMulti ==
    \/ Producer
    \/ \E r \in Readers : CloseBody(r)
    \/ \E r \in Readers : StreamingSteps(r)
    \/ \E r \in Readers, plen \in BufLens : ReadCall(r, "Read", plen, 0)

SpecMulti == Init /\ [][NextMulti]_vars

\* SpecWake: the producer and every Reader slot; Reader 1 streams one-byte Reads,
\* Reader 2 calls ReadAt with a one-byte buffer at every offset
NextWake ==
    \/ Producer
    \/ \E r \in Readers : CloseBody(r)
    \/ \E r \in Readers : StreamingSteps(r)
    \/ ReadCall(1, "Read", 1, 0)
    \/ \E off \in Offsets : ReadCall(2, "ReadAt", 1, off)

SpecWake == Init /\ [][NextWake]_vars

\* SpecCancel: the producer, a canceller, an outside closer and one Reader slot,
\* with one-byte Reads and ReadAts
NextCancel ==
    \/ Producer
    \/ Canceller
    \/ Closer
    \/ \E r \in Readers : CloseBody(r)
    \/ \E r \in Solo : ClientSteps(r)
    \/ \E r \in Solo : ReadCall(r, "Read", 1, 0)
    \/ \E r \in Solo, off \in Offsets : ReadCall(r, "ReadAt", 1, off)

SpecCancel == Init /\ [][NextCancel]_vars

\* SpecShutdown: the producer, a thread calling ShutdownWithErr / Remove, an
\* outside closer and one Reader slot, with one-byte Reads and ReadAts
NextShutdown ==
    \/ Producer
    \/ Remover
    \/ Closer
    \/ \E r \in Readers : CloseBody(r)
    \/ \E r \in Solo : StreamingSteps(r)
    \/ \E r \in Solo : ReadCall(r, "Read", 1, 0)
    \/ \E r \in Solo, off \in Offsets : ReadCall(r, "ReadAt", 1, off)

SpecShutdown == Init /\ [][NextShutdown]_vars

\* SpecCancelRemove: the producer, a canceller, a thread calling Remove, an
\* outside closer and one Reader slot with one-byte Reads
NextCancelRemove ==
    \/ Producer
    \/ Canceller
    \/ ShutdownWithErr(ErrRemoving)
    \/ WaitForZeroHandles
    \/ FsRemove
    \/ Closer
    \/ \E r \in Readers : CloseBody(r)
    \/ \E r \in Solo : ClientSteps(r)
    \/ \E r \in Solo : ReadCall(r, "Read", 1, 0)

SpecCancelRemove == Init /\ [][NextCancelRemove]_vars

\* SpecReadAt: the producer and one Reader slot on a stream nobody cancels, with
\* Read and ReadAt of every buffer length, ReadAt at every offset
NextReadAt ==
    \/ Producer
    \/ \E r \in Readers : CloseBody(r)
    \/ \E r \in Solo : StreamingSteps(r)
    \/ \E r \in Solo, plen \in BufLens : ReadCall(r, "Read", plen, 0)
    \/ \E r \in Solo, plen \in BufLens, off \in Offsets : ReadCall(r, "ReadAt", plen, off)

SpecReadAt == Init /\ [][NextReadAt]_vars

\* SpecSeek: the producer, a canceller, an outside closer and one Reader slot
\* that calls Seek with every whence and one-byte Reads
NextSeek ==
    \/ Producer
    \/ Canceller
    \/ Closer
    \/ \E r \in Readers : CloseBody(r)
    \/ \E r \in Solo : ClientSteps(r)
    \/ \E r \in Solo : ReadCall(r, "Read", 1, 0)
    \/ \E r \in Solo, offset \in SeekOffsets, whence \in Whences : SeekCall(r, offset, whence)
    \/ \E r \in Solo : SeekSize(r)

SpecSeek == Init /\ [][NextSeek]_vars

\* SpecSeekEnd: as SpecSeek, the Reader's Seeks all being Seek(offset, SeekEnd)
NextSeekEnd ==
    \/ Producer
    \/ Canceller
    \/ Closer
    \/ \E r \in Readers : CloseBody(r)
    \/ \E r \in Solo : ClientSteps(r)
    \/ \E r \in Solo : ReadCall(r, "Read", 1, 0)
    \/ \E r \in Solo, offset \in SeekOffsets : SeekCall(r, offset, SeekEnd)
    \/ \E r \in Solo : SeekSize(r)

SpecSeekEnd == Init /\ [][NextSeekEnd]_vars

\* The scheduler runs every thread that can take a step inside a call (each
\* thread is sequential, so at most one of its steps is enabled at a time); no
\* thread is obliged to begin a call.
ProducerInternal ==
    \/ WroteLocked
    \/ WroteBroadcast
    \/ BroadcasterClose("W")
    \/ StreamCloseEnd("W")

CancellerInternal ==
    \/ \E r \in Readers : CancelCloseReader(r)
    \/ CancelCloseReturn
    \/ StreamCloseBegin("X")
    \/ BroadcasterClose("X")
    \/ StreamCloseEnd("X")

FairReaders == \A r \in Readers : WF_vars(ClientInternal(r)) /\ WF_vars(CloseBody(r))

FairStreamers ==
    \A r \in Readers : WF_vars(StreamingInternal(r)) /\ WF_vars(CloseBody(r))

RemoverInternal ==
    \/ WaitForZeroHandles
    \/ FsRemove

FairShutdown ==
    /\ SpecShutdown
    /\ WF_vars(ProducerInternal)
    /\ WF_vars(RemoverInternal)
    /\ WF_vars(KCloseReturn)
    /\ FairStreamers

FairWake == SpecWake /\ WF_vars(ProducerInternal) /\ FairStreamers

FairCancel ==
    /\ SpecCancel
    /\ WF_vars(ProducerInternal)
    /\ WF_vars(CancellerInternal)
    /\ WF_vars(KCloseReturn)
    /\ FairReaders

FairCancelRemove ==
    /\ SpecCancelRemove
    /\ WF_vars(ProducerInternal)
    /\ WF_vars(CancellerInternal)
    /\ WF_vars(RemoverInternal)
    /\ WF_vars(KCloseReturn)
    /\ FairReaders

FairReadAt == SpecReadAt /\ WF_vars(ProducerInternal) /\ FairStreamers

FairSeekEnd ==
    /\ SpecSeekEnd
    /\ WF_vars(ProducerInternal)
    /\ WF_vars(CancellerInternal)
    /\ WF_vars(KCloseReturn)
    /\ FairReaders
    /\ \A r \in Readers : WF_vars(SeekSize(r))

\* ------------------------------------------------------------- properties

WaitPcs == {"wait", "wait_unlock", "parked"}

\* C1: on a stream that is written and then closed, never canceled, a Reader
\* whose Read has returned EOF has received exactly the bytes written, all of
\* them and in order, whatever the other Readers and the producer did.
C1_DrainedYieldsB ==
    \A r \in Readers :
        (rpc[r] = "idle" /\ lastErr[r] = EOF) =>
            /\ got[r] = fileData
            /\ writerClosed
            /\ state = closedState

\* both Readers have drained a stream of MaxBytes bytes
C1_Witness ==
    \A r \in Readers : rpc[r] = "idle" /\ lastErr[r] = EOF /\ Len(got[r]) = MaxBytes

\* C2: in every reachable state the bytes a Reader's Reads have returned so far
\* are a prefix of the bytes written so far (nothing skipped, repeated or
\* reordered), and the Reader's offset is their number.
C2_ReadPrefix ==
    \A r \in Readers :
        /\ Len(got[r]) <= Len(fileData)
        /\ got[r] = SubSeq(fileData, 1, Len(got[r]))
        /\ readOff[r] = Len(got[r])

\* a Reader has been handed every byte over more than one Read
C2_Witness ==
    \E r \in Readers : Len(got[r]) = MaxBytes /\ lastN[r] = 1 /\ rpc[r] = "idle"

\* C3: a Reader blocked in broadcaster.Wait (registered with cond.Wait, parked
\* or about to park) at an offset that a Wrote has put below size leaves Wait.
C3_NoLostWakeup ==
    \A r \in Readers :
        (rpc[r] \in {"wait_unlock", "parked"} /\ CurOff(r) < size)
            ~> (rpc[r] \notin WaitPcs)

\* a parked Reader, not yet notified, while size already exceeds its offset
C3_Witness ==
    \E r \in Readers :
        rpc[r] = "parked" /\ r \in waiters /\ state = openState /\ CurOff(r) < size

\* C4: once Stream.Close has returned (no Cancel), a Read or ReadAt in progress
\* on an unclosed Reader at an offset >= size, whether it was blocked before
\* the Close or began after it, returns EOF.
C4_EOFAfterClose ==
    \A r \in Readers :
        (sOnce /\ rOp[r] # "none" /\ CurOff(r) >= size /\ closePc[r] = "no")
            ~> (rpc[r] = "idle" /\ lastErr[r] = EOF /\ lastN[r] = 0)

\* Stream.Close has returned while a Reader is still parked at the end of the data
C4_Witness ==
    \E r \in Readers :
        sOnce /\ rpc[r] = "parked" /\ CurOff(r) >= size /\ closePc[r] = "no"

\* C5: a step in which Read or ReadAt returns EOF is taken in a state that is
\* closedState with the call's offset >= size; none is taken in openState.
C5_EOFOnlyWhenClosed ==
    [][\A r \in Readers :
          (lastErr'[r] = EOF /\ lastErr[r] # EOF) =>
              (state = closedState /\ CurOff(r) >= size /\ rpc[r] \in WaitPcs)]_vars

\* a ReadAt at the end of the data has returned EOF with the stream closed
C5_Witness ==
    \E r \in Readers :
        rpc[r] = "idle" /\ lastErr[r] = EOF /\ lastN[r] = 0 /\ state = closedState /\ size > 0

\* C6: a Reader blocked in Wait when Cancel makes the state canceledState
\* returns from that call with ErrCanceled and n = 0.
C6_CancelPreempts ==
    \A r \in Readers :
        (rpc[r] \in {"wait_unlock", "parked"} /\ state = canceledState)
            ~> (rpc[r] = "idle" /\ lastErr[r] = ErrCanceled /\ lastN[r] = 0)

\* a Reader still parked after Cancel ran on a stream that had data
C6_Witness ==
    \E r \in Readers : rpc[r] = "parked" /\ state = canceledState /\ size > 0

\* C7 as stated: a NextReader that begins after Stream.Cancel has returned
\* fails, creates no Reader, leaves the handle counter unchanged and returns
\* ErrCanceled.
C7_Original ==
    [][\A r \in Readers :
          (cancels > 0 /\ addHandle(r)) =>
              /\ rpc'[r] = "init"
              /\ fileInUse' = fileInUse
              /\ rs' = rs
              /\ lastErr'[r] = ErrCanceled]_vars

\* C7: a NextReader that begins after Stream.Cancel has returned fails, creates
\* no Reader, leaves the handle counter unchanged and returns the latched
\* new-handle error: ErrCanceled, or the error of a ShutdownWithErr / Remove
\* that was called with it earlier.
C7_ReturnsLatchedErr ==
    [][\A r \in Readers :
          (cancels > 0 /\ addHandle(r)) =>
              /\ rpc'[r] = "init"
              /\ fileInUse' = fileInUse
              /\ rs' = rs
              /\ lastErr'[r] = newHandleErr
              /\ newHandleErr \in {ErrCanceled, ErrRemoving, ErrShutdown}
              /\ newHandleErr # ErrCanceled => (pc["M"] # "idle" \/ shutdowns > 0)]_vars

\* a NextReader has failed with ErrCanceled after Cancel returned
C7_Witness ==
    \E r \in Readers : cancels > 0 /\ rpc[r] = "init" /\ lastErr[r] = ErrCanceled

\* C8: a Read or ReadAt that begins when the state is canceledState never
\* reaches the file, hands out no byte, and returns ErrCanceled with n = 0,
\* also when the stream was closed before the Cancel and unread bytes remain.
C8_CancelWins ==
    [][\A r \in Readers :
          startCanceled[r] =>
              /\ got'[r] = got[r]
              /\ rpc'[r] \in {"use", "selfclose", "idle"}
              /\ rpc'[r] = "idle" => (lastErr'[r] = ErrCanceled /\ lastN'[r] = 0)]_vars

\* a Read begun after the Cancel is about to return ErrCanceled with bytes left unread
C8_Witness ==
    \E r \in Readers :
        /\ startCanceled[r]
        /\ rpc[r] = "selfclose"
        /\ rOp[r] = "Read"
        /\ closePc[r] = "done"
        /\ readOff[r] < size

\* no call is in progress on the threads that call Write, Close, Cancel,
\* NextReader, Read, ReadAt and Reader.Close
Quiet ==
    /\ \A t \in {"W", "X", "K"} : pc[t] = "idle"
    /\ \A r \in Readers : rpc[r] \in {"init", "idle"} /\ closePc[r] \in {"no", "done"}

\* C9: after Stream.Cancel has returned and every call in flight has returned,
\* the handle counter is zero and no Reader is blocked in Wait.
C9_NoLeakOnCancel ==
    (cancels > 0 /\ Quiet) => (fileInUse = 0 /\ \A r \in Readers : rpc[r] \notin WaitPcs)

\* C10: when WaitForZeroHandles has returned to ShutdownWithErr / Remove, and
\* when the file system has been asked to remove the file, the handle counter
\* is 0, the writer has closed, no NextReader holds a handle, and every Reader
\* that was created has closed its file and dropped its handle.
C10_RemoveSafety ==
    (shutdowns > 0 \/ pc["M"] = "m_remove" \/ fsRemoved) =>
        /\ fileInUse = 0
        /\ writerClosed
        /\ \A r \in Readers :
              /\ rpc[r] \notin {"nr_create", "nr_add"}
              /\ Created(r) =>
                    (r \notin rs /\ readerClosed[r] /\ closePc[r] \in {"bcast", "done"})

\* Remove has deleted the file of a stream whose Reader had read data
C10_Witness ==
    \E r \in Readers : fsRemoved /\ Created(r) /\ Len(got[r]) > 0

\* the writer has closed and every Reader that was created has completed Close
AllClosed ==
    /\ sOnce
    /\ \A r \in Readers : rpc[r] = "init" \/ (rpc[r] = "idle" /\ closePc[r] = "done")

\* C11: a ShutdownWithErr(e) / Remove waiting in WaitForZeroHandles returns
\* once the writer has closed and every Reader that was created has closed.
C11_ShutdownReturns ==
    (pc["M"] = "m_wait" /\ AllClosed) ~> (pc["M"] # "m_wait" /\ shutdowns > 0)

\* Remove is still waiting although the writer and a Reader that read data have closed
C11_Witness ==
    /\ pc["M"] = "m_wait"
    /\ AllClosed
    /\ \E r \in Readers : closePc[r] = "done" /\ Len(got[r]) > 0

ShutdownBegins == pc["M"] = "idle" /\ pc'["M"] = "m_wait"

\* C13: the PreventNewHandles step of ShutdownWithErr / Remove leaves the
\* state, the size, the reader set, the handle counter and the waiters as they
\* were; while it is latched, a Read or ReadAt on a Reader nobody closed returns
\* nil or EOF, a Write on an unclosed Stream stores all its bytes, and a Reader
\* parked below size is woken.
C13_ShutdownFrame ==
    /\ [][/\ ShutdownBegins =>
                (state' = state /\ size' = size /\ rs' = rs /\ fileInUse' = fileInUse
                    /\ waiters' = waiters /\ fileData' = fileData)
          /\ \A r \in Readers :
                (newHandleErr # ErrNil /\ state # canceledState /\ closePc[r] = "no"
                    /\ rOp[r] # "none" /\ rpc'[r] = "idle") =>
                        lastErr'[r] \in {ErrNil, EOF}
          /\ \A plen \in BufLens :
                (newHandleErr # ErrNil /\ ~writerClosed /\ StreamWrite(plen)) =>
                    /\ Len(fileData') = Len(fileData) + plen
                    /\ plen > 0 => (wN' = plen /\ pc'["W"] = "wrote")]_vars
    /\ \A r \in Readers :
          (newHandleErr # ErrNil /\ rpc[r] \in {"wait_unlock", "parked"} /\ CurOff(r) < size)
              ~> (rpc[r] \notin WaitPcs)

\* while Remove waits, a Reader created before it has read all the bytes and got EOF
C13_Witness ==
    \E r \in Readers :
        /\ pc["M"] = "m_wait"
        /\ closePc[r] = "no"
        /\ rpc[r] = "idle"
        /\ lastErr[r] = EOF
        /\ Len(got[r]) = MaxBytes

\* C14: ShutdownWithErr(nil) returns in the step that calls it and changes
\* nothing of the stream; as long as no ShutdownWithErr with an error and no
\* Cancel has been called, NextReader still gets its handle.
C14_NilShutdownNoOp ==
    [][/\ nilShutdowns' # nilShutdowns =>
             (pc["M"] = "idle" /\ pc'["M"] = "idle"
                 /\ UNCHANGED <<bvars, fvars, svars, cvars, rvars, mErr, shutdowns>>)
       /\ \A r \in Readers :
             (nilShutdowns > 0 /\ mErr = ErrNil /\ state # canceledState /\ addHandle(r)) =>
                 (rpc'[r] = "nr_create" /\ fileInUse' = fileInUse + 1)]_vars

\* after ShutdownWithErr(nil) the stream is open, a Reader exists and has read a byte
C14_Witness ==
    \E r \in Readers :
        /\ nilShutdowns > 0
        /\ mErr = ErrNil
        /\ state = openState
        /\ ~writerClosed
        /\ r \in rs
        /\ rpc[r] = "idle"
        /\ lastErr[r] = ErrNil
        /\ lastN[r] = 1

C16_ReadAfterReaderClose ==
    [][\A r \in Readers :
          closePc[r] = "done" =>
              /\ got'[r] = got[r]
              /\ readOff'[r] = readOff[r]
              /\ (rOp[r] # "none" /\ rpc'[r] = "idle") =>
                    (lastErr'[r] # ErrNil /\ lastN'[r] = 0)]_vars

\* a Read on a closed Reader of an open stream has returned ErrClosed with bytes left unread
C16_Witness ==
    \E r \in Readers :
        /\ closePc[r] = "done"
        /\ rpc[r] = "idle"
        /\ lastErr[r] = ErrClosed
        /\ state = openState
        /\ readOff[r] < size

\* C17: after Stream.Close or Stream.Cancel has returned, a Write returns
\* (0, ErrClosed) without taking the Wrote path, and no step changes the file or
\* the size.
C17_WriteAfterClose ==
    [][(sOnce \/ cancels > 0) =>
          /\ fileData' = fileData
          /\ size' = size
          /\ wRes' # wRes => wRes' = <<0, ErrClosed>>
          /\ \A plen \in BufLens :
                StreamWrite(plen) => (wRes' = <<0, ErrClosed>> /\ pc'["W"] = "idle")]_vars

\* a Write after Close has been refused although the file had room
C17_Witness ==
    sOnce /\ wRes = <<0, ErrClosed>> /\ Len(fileData) < MaxBytes /\ pc["W"] = "idle"

\* no Write can change the size any more: the file is closed to writes and no Wrote is pending
SizeFinal == writerClosed /\ pc["W"] # "wrote"

C19_MonotoneSize ==
    /\ size = 0
    /\ [][/\ size' >= size
          /\ size' # size => (pc["W"] = "wrote" /\ pc'["W"] = "bcast")
          /\ (pc["W"] = "wrote" /\ pc'["W"] = "bcast") => (wN > 0 /\ size' = size + wN)]_vars

\* the size has been raised by two separate Writes
C19_Witness ==
    size = MaxBytes /\ wRes = <<1, ErrNil>> /\ pc["W"] = "idle"

\* C20: the state only goes openState -> closedState, openState -> canceledState
\* and closedState -> canceledState; in canceledState no Close or Cancel changes
\* it, and Size never again reports the closed flag.
C20_OneWayLifecycle ==
    /\ state = openState
    /\ [][/\ <<state, state'>> \in
                 {<<openState, openState>>, <<closedState, closedState>>,
                  <<canceledState, canceledState>>, <<openState, closedState>>,
                  <<openState, canceledState>>, <<closedState, canceledState>>}
          /\ state = canceledState => (state' = canceledState /\ ~Size[2]')]_vars

\* Stream.Cancel has run its Close on a stream canceled after it was closed
C20_Witness ==
    state = canceledState /\ sOnce /\ cancels > 0 /\ size > 0 /\ pc["W"] = "idle"

\* how far the body of Reader.closeOnce has got
closePos == [no |-> 0, file |-> 1, drop |-> 2, handle |-> 3, bcast |-> 4, done |-> 5]

\* Reader slot r holds a handle: taken by addHandle, not yet dropped
HoldsHandle(r) ==
    \/ rpc[r] \in {"nr_create", "nr_add"}
    \/ Created(r) /\ closePc[r] \in {"no", "file", "drop", "handle"}

C25_LatchWriteOnce ==
    [][/\ newHandleErr # ErrNil => newHandleErr' = newHandleErr
       /\ \A r \in Readers :
             (newHandleErr # ErrNil /\ rpc[r] = "init" /\ addHandle(r)) =>
                 (lastErr'[r] = newHandleErr /\ rpc'[r] = "init" /\ fileInUse' = fileInUse)]_vars

\* Remove followed by Cancel: the latch still holds ErrRemoving and NextReader returned it
C25_Witness ==
    \E r \in Readers :
        /\ mErr = ErrRemoving
        /\ newHandleErr = ErrRemoving
        /\ state = canceledState
        /\ cancels > 0
        /\ rpc[r] = "init"
        /\ lastErr[r] = ErrRemoving

\* C26 as stated: in every reachable state the handle counter is 1 while the
\* Stream has not been closed, plus the number of Readers in the reader set.
C26_Original ==
    fileInUse = (IF sOnce THEN 0 ELSE 1) + Cardinality(rs)

\* C26: in every reachable state the handle counter is 1 until Stream.closeOnce
\* has completed, plus the number of Readers holding a handle (from addHandle to
\* the dropHandle of DropReader); it equals the size of the reader set plus the
\* writer's 1 whenever no NextReader, Close or Cancel is in progress; and it is
\* 0 only when the writer and every Reader created have closed.
C26_HandleAccounting ==
    /\ fileInUse = (IF sOnce THEN 0 ELSE 1) + Cardinality({r \in Readers : HoldsHandle(r)})
    /\ Quiet => fileInUse = (IF sOnce THEN 0 ELSE 1) + Cardinality(rs)
    /\ fileInUse = 0 =>
          (writerClosed /\ \A r \in Readers : Created(r) => readerClosed[r] /\ r \notin rs)

\* a NextReader holds a handle for a Reader that is not yet in the reader set
C26_Witness ==
    \E r \in Readers : rpc[r] = "nr_add" /\ fileInUse = 2 /\ rs = {} /\ ~sOnce

\* C28: Wait returns ErrCanceled exactly when the state is canceledState; else
\* EOF exactly when the state is closedState and the offset >= size, also for a
\* Reader no longer in the reader set; else ErrClosed, with the Reader out of
\* the set; and it returns nil only with the offset < size and the Reader in
\* the set.
C28_WaitPrecedence ==
    [][\A r \in Readers :
          (rpc[r] \in {"wait", "parked"} /\ rpc'[r] \notin WaitPcs) =>
              LET err == IF rpc'[r] = "use" THEN ErrNil
                         ELSE IF rpc'[r] = "selfclose" THEN ErrCanceled
                         ELSE lastErr'[r]
              IN  /\ err = ErrCanceled <=> state = canceledState
                  /\ err = EOF <=> (state = closedState /\ CurOff(r) >= size)
                  /\ err = ErrClosed <=>
                        /\ r \notin rs
                        /\ state = openState \/ (state = closedState /\ CurOff(r) < size)
                  /\ err = ErrNil <=> (state # canceledState /\ CurOff(r) < size /\ r \in rs)
                  /\ err \in {ErrCanceled, EOF, ErrClosed, ErrNil}]_vars

\* a Reader already dropped from the set has got EOF at the end of a closed stream
C28_Witness ==
    \E r \in Readers :
        /\ rpc[r] = "idle"
        /\ lastErr[r] = EOF
        /\ closePc[r] \in {"handle", "bcast"}
        /\ r \notin rs
        /\ state = closedState

\* C29: no Reader is inserted into the reader set once the state is
\* canceledState (Cancel has drained it), and no NextReader returns a Reader then.
C29_NewReaderAtomic ==
    [][state = canceledState =>
          /\ rs' \subseteq rs
          /\ \A r \in Readers : ~(rpc[r] = "nr_add" /\ rpc'[r] = "idle")]_vars

\* a broadcast has taken Readers off the notify list in this step
Broadcasted == waiters' # waiters /\ waiters' \subseteq waiters

\* C30 as stated: no step that broadcasts belongs to a section under the
\* exclusive lock, i.e. none changes state, size, the reader set or the latch.
C30_Original ==
    [][Broadcasted =>
          (state' = state /\ size' = size /\ rs' = rs /\ newHandleErr' = newHandleErr)]_vars

\* C30: the broadcasts of Wrote and DropReader are issued in a step of their
\* own, after the section under the exclusive lock; the only broadcasts issued
\* inside such a section are those of setState, in Close and Cancel, when it
\* assigns the state.
C30_BroadcastAndLock ==
    [][Broadcasted =>
          /\ size' = size
          /\ fileInUse' = fileInUse
          /\ state' = state => (rs' = rs /\ newHandleErr' = newHandleErr)
          /\ state' # state =>
                \/ \E t \in {"W", "X"} : pc[t] = "sclose_b" /\ pc'[t] = "sclose_h"
                \/ pc["X"] = "idle" /\ pc'["X"] = "x_drain"]_vars

\* Close has assigned closedState and woken a parked Reader in the same locked section
C30_Witness ==
    \E r \in Readers :
        /\ pc["W"] = "sclose_h"
        /\ state = closedState
        /\ rpc[r] = "parked"
        /\ r \notin waiters

\* C24: a ReadAt on an open stream that returns without an error has filled its
\* buffer: it waited for the bytes that were missing when it was called.
C24_ReadAtFills ==
    [][\A r \in Readers :
          ( /\ rOp[r] = "ReadAt"
            /\ rpc[r] \in {"use", "file", "wait", "parked"}
            /\ rpc'[r] = "idle"
            /\ lastErr'[r] = ErrNil
            /\ state = openState )
          => lastN'[r] = rLen[r]]_vars

FileCallStep ==
    \/ fileData' # fileData
    \/ writerClosed' # writerClosed
    \/ readerClosed' # readerClosed
    \/ fsRemoved' # fsRemoved
    \/ \E r \in Readers : rpc[r] = "file" /\ rpc'[r] # "file"
    \/ \E r \in Readers : rpc[r] = "nr_create" /\ rpc'[r] # "nr_create"

\* C31: no thread is inside a File or FileSystem call while it holds the
\* broadcaster lock.  A thread holding the shared lock across steps is at
\* cond.Wait's registration, never in a read, an Open or a Close; and a step of
\* a file call (the positional read, fs.Open, a Reader's file Close, also those
\* Cancel makes for the drained Readers) is no part of a locked section: it
\* neither reads the lock's holders nor changes what the lock protects.
C31_NoLockInFileCall ==
    /\ [](\A r \in muR : rpc[r] = "wait_unlock")
    /\ [][FileCallStep =>
             /\ UNCHANGED <<state, size, newHandleErr, rs, waiters, muR>>
             /\ \A r \in Readers :
                   (readerClosed'[r] # readerClosed[r]) => closePc[r] = "file"]_vars

\* Cancel has run its locked section while Reader 1 was inside its positional
\* read; the Reader's file is still open and Cancel has yet to close it
C31_Witness ==
    /\ rpc[1] = "file"
    /\ pc["X"] = "x_drain"
    /\ 1 \in xToClose
    /\ ~readerClosed[1]
    /\ state = canceledState

\* C32 as stated: a Reader's file is never closed while a positional read on it
\* is executing, and a Reader leaves the live-reader set only after its file
\* has been closed.
C32_Original ==
    [][\A r \in Readers :
          /\ (readerClosed'[r] /\ ~readerClosed[r]) => rpc[r] # "file"
          /\ (r \in rs /\ r \notin rs') => readerClosed[r]]_vars

\* C32: a Reader's file is never closed while a positional read on it is
\* executing (the close waits, and the file is closed by the body of the
\* Reader's Close only); DropReader removes a Reader from the live-reader set
\* only after its file has been closed; the one other step that removes a
\* Reader is Cancel's drain, which empties the set before the files are closed.
C32_CloseWaitsForRead ==
    [][\A r \in Readers :
          /\ (readerClosed'[r] /\ ~readerClosed[r]) =>
                 (rpc[r] # "file" /\ closePc[r] = "file" /\ closePc'[r] = "drop")
          /\ (r \in rs /\ r \notin rs') =>
                 \/ readerClosed[r] /\ closePc[r] = "drop" /\ closePc'[r] = "handle"
                 \/ pc["X"] = "idle" /\ pc'["X"] = "x_drain" /\ rs' = {} /\ r \in xToClose'
          /\ closePc[r] \in {"drop", "handle", "bcast", "done"} => readerClosed[r]]_vars

\* another thread has called Close on a Reader whose positional read is
\* executing: the file is still open and the close is waiting
C32_Witness ==
    /\ rpc[1] = "file"
    /\ closePc[1] = "file"
    /\ ~readerClosed[1]
    /\ pc["K"] = "k_wait"
    /\ tCur["K"] = 1

\* C33: whenever a Read, ReadAt or Seek returns ErrCanceled, the Reader's Close
\* has completed: its file is closed, it is not in the live-reader set and its
\* handle has been released.
C33_SelfClose ==
    [][\A r \in Readers :
          ( /\ rpc[r] \in {"use", "file", "wait", "parked", "selfclose", "seek_size"}
            /\ rpc'[r] = "idle"
            /\ lastErr'[r] = ErrCanceled )
          => ( /\ closePc'[r] = "done"
               /\ readerClosed'[r]
               /\ r \notin rs'
               /\ ~HoldsHandle(r)' )]_vars

\* C34: when createReader() fails inside NewReader, NextReader returns the
\* factory's error, the live-reader set is left as it was and the handle taken
\* by addHandle is given back, so that a slot without a Reader holds no handle
\* and the counter stays the writer's handle plus the Readers' handles; a
\* Remove that waits after such a failure returns once the writer and the
\* Readers have closed.
C34_FailedOpen ==
    /\ [][\A r \in Readers :
             (rpc[r] = "nr_create" /\ rpc'[r] = "init") =>
                 /\ lastErr'[r] = ErrOpen
                 /\ rs' = rs
                 /\ r \notin rs
                 /\ fileInUse' = fileInUse - 1]_vars
    /\ [](\A r \in Readers : rpc[r] = "init" => (r \notin rs /\ ~HoldsHandle(r)))
    /\ [](fileInUse = (IF sOnce THEN 0 ELSE 1) + Cardinality({r \in Readers : HoldsHandle(r)}))
    /\ (pc["M"] = "m_wait" /\ AllClosed /\ \E r \in Readers : rpc[r] = "init" /\ lastErr[r] = ErrOpen)
           ~> (pc["M"] # "m_wait" /\ shutdowns > 0)

\* a NextReader has failed in fs.Open, the stream has been closed and Remove has
\* removed the file
C34_Witness ==
    /\ rpc[1] = "init"
    /\ lastErr[1] = ErrOpen
    /\ sOnce
    /\ fsRemoved
    /\ fileInUse = 0
    /\ pc["M"] = "idle"

\* C35 as stated: size never exceeds the number of bytes stored in the file, and
\* the positional read retried after Wait has returned nil finds at least one byte.
C35_Original ==
    /\ [](size <= Len(fileData))
    /\ [][\A r \in Readers :
             (rpc[r] = "file" /\ ready[r] /\ rpc'[r] # "file") =>
                 memReadAt(readerClosed[r], fileData, rLen[r] - rN[r], CurOff(r))[1] >= 1]_vars

\* C35: size never exceeds the number of bytes stored in the file; from the
\* moment Wait returns nil for an offset until the call returns, the offset is
\* below size; the positional read retried then never reports EOF with zero
\* bytes, and it finds at least one byte, the byte stored at that offset first,
\* unless the buffer is empty (it then gets 0 bytes and nil) or the Reader has
\* been closed meanwhile (it then gets ErrClosed).
C35_SizeBehindFile ==
    /\ [](size <= Len(fileData))
    /\ [](\A r \in Readers :
             (ready[r] /\ rpc[r] \in {"use", "rlock", "file"}) => CurOff(r) < size)
    /\ [][\A r \in Readers :
             (rpc[r] = "file" /\ ready[r] /\ rpc'[r] # "file") =>
                 LET res == memReadAt(readerClosed[r], fileData, rLen[r] - rN[r], CurOff(r))
                 IN  /\ ~(res[1] = 0 /\ res[2] = EOF)
                     /\ readerClosed[r] => (res[1] = 0 /\ res[2] = ErrClosed)
                     /\ (~readerClosed[r] /\ rLen[r] - rN[r] = 0) =>
                            (res[1] = 0 /\ res[2] = ErrNil)
                     /\ (~readerClosed[r] /\ rLen[r] - rN[r] > 0) =>
                            (res[1] >= 1 /\ res[3][1] = fileData[CurOff(r) + 1])]_vars

\* Wait has returned nil to a Read that is now inside its retried positional
\* read, while the producer has stored a further byte that size does not count yet
C35_Witness ==
    /\ rpc[1] = "file"
    /\ ready[1]
    /\ rLen[1] > 0
    /\ ~readerClosed[1]
    /\ size = 1
    /\ Len(fileData) = 2
    /\ pc["W"] = "wrote"

\* C36: a Read or ReadAt in progress on a closed stream returns, whatever the
\* length of its buffer.
C36_ReadTerminates ==
    \A r \in Readers :
        (rOp[r] \in {"Read", "ReadAt"} /\ rpc[r] # "idle" /\ state = closedState)
            ~> (rpc[r] = "idle")

\* some thread is inside a call and is not waiting for data (a Reader parked in
\* cond.Wait and not yet notified) or for the handle counter (WaitForZeroHandles)
InCall ==
    \/ \E t \in {"W", "X", "K"} : pc[t] # "idle"
    \/ pc["M"] = "m_remove"
    \/ \E r \in Readers : closePc[r] \notin {"no", "done"}
    \/ \E r \in Readers : rpc[r] \notin {"init", "idle", "parked"}
    \/ \E r \in Readers : rpc[r] = "parked" /\ r \notin waiters

\* a step some thread takes inside a call
InternalStep ==
    \/ ProducerInternal
    \/ CancellerInternal
    \/ RemoverInternal
    \/ KCloseReturn
    \/ \E r \in Readers : CloseBody(r) \/ ClientInternal(r) \/ SeekSize(r)

\* C37: a Stream.Cancel that has begun returns, the threads taking their steps
\* in any order, with no call begun by a Reader's owner needed and whatever the
\* handle counter is; and in no state are the threads that are inside calls all
\* blocked on a lock or a close latch: one of them has a step to take.
C37_CancelReturns ==
    /\ (pc["X"] # "idle") ~> (pc["X"] = "idle")
    /\ [](InCall => ENABLED InternalStep)

\* Cancel has returned while a Remove is waiting for the handle counter, which
\* is not zero
C37_Witness ==
    /\ cancels > 0
    /\ pc["X"] = "idle"
    /\ state = canceledState
    /\ pc["M"] = "m_wait"
    /\ fileInUse > 0

====
